---- MODULE Spec2Model ----
(***************************************************************************)
(* csv-excel-converter: the two conversions csv_to_excel and excel_to_csv  *)
(* (csv_excel_converter/converter.py), the command functions and the       *)
(* sheet-name parser of the command line (csv_excel_converter/cli.py).     *)
(*                                                                         *)
(* Text is a sequence of one-character strings, so that parsing a numeral, *)
(* formatting a number and stripping blanks are computed, not assumed.     *)
(* A delimited file is a sequence of lines, a line a sequence of fields.   *)
(* A worksheet is a sequence of rows of typed cells.  A frame is the       *)
(* in-memory table: column labels, row labels (the index) and rows.        *)
(*                                                                         *)
(* The table library is the one the code was written against: to_csv still *)
(* accepts line_terminator, read_csv and read_excel infer a column's type  *)
(* from all of its cells, to_excel writes the column labels as first row.  *)
(***************************************************************************)
EXTENDS Integers, Sequences, FiniteSets, TLC

VARIABLES
    fs,        \* the files: source csv, workbook, output csv, parent directories
    fs0,       \* the files as they were when the latest call began
    call1,     \* the csv_to_excel call made so far (its arguments), or NoCall
    call2,     \* the excel_to_csv call made so far (its arguments), or NoCall
    res1,      \* what the csv-to-excel command returned
    res2,      \* what the excel-to-csv command returned
    pc,        \* position inside a conversion call (staged specification)
    cur,       \* the call in progress (staged specification)
    readFrame, \* the frame the Reader produced (staged specification)
    frame,     \* the frame handed on to the next stage (staged specification)
    trace,     \* the stages entered so far, in order (staged specification)
    exc,       \* the exception in flight (staged specification)
    value,     \* the --sheet-name text given on the command line
    parsed     \* what _sheet_identifier made of it

vars ==
    <<fs, fs0, call1, call2, res1, res2, pc, cur, readFrame, frame, trace, exc,
      value, parsed>>

----------------------------------------------------------------------------
(* Bounds *)

MaxCols == 3    \* fields in a line of a source file
MaxRows == 2    \* data rows of a source file
MaxCells == 6   \* fields of a source file, header included
MaxLen == 3     \* characters of a --sheet-name text

----------------------------------------------------------------------------
(* Text *)

Digits == <<"0", "1", "2", "3", "4", "5", "6", "7", "8", "9">>

IsDigitChar(c) == \E i \in 1..Len(Digits) : Digits[i] = c

DigitVal(c) == (CHOOSE i \in 1..Len(Digits) : Digits[i] = c) - 1

\* str.isdigit(): non-empty and every character a digit
isdigit(s) == s # <<>> /\ \A i \in 1..Len(s) : IsDigitChar(s[i])

\* int(text) of an all-digit text
RECURSIVE int(_)
int(s) ==
    IF s = <<>> THEN 0
    ELSE 10 * int(SubSeq(s, 1, Len(s) - 1)) + DigitVal(s[Len(s)])

\* str(number) of a non-negative integer
RECURSIVE str(_)
str(n) ==
    IF n < 10 THEN <<Digits[n + 1]>>
    ELSE str(n \div 10) \o <<Digits[(n % 10) + 1]>>

RECURSIVE lstrip(_)
lstrip(s) == IF s # <<>> /\ Head(s) = " " THEN lstrip(Tail(s)) ELSE s

RECURSIVE rstrip(_)
rstrip(s) ==
    IF s # <<>> /\ s[Len(s)] = " " THEN rstrip(SubSeq(s, 1, Len(s) - 1)) ELSE s

\* str.strip()
strip(s) == rstrip(lstrip(s))

----------------------------------------------------------------------------
(* Cells and labels: a text, an integer, or empty *)

StrCell(s) == [k |-> "str", n |-> 0, s |-> s]
IntCell(n) == [k |-> "int", n |-> n, s |-> <<>>]
NaN == [k |-> "nan", n |-> 0, s |-> <<>>]

\* whether the library's numeric conversion accepts the cell
IsNumeric(c) == c.k = "int" \/ (c.k = "str" /\ isdigit(c.s))

ToInt(c) == IF c.k = "int" THEN c ELSE IntCell(int(c.s))

\* how a cell or label is written into delimited text
FormatCell(c) ==
    IF c.k = "int" THEN str(c.n)
    ELSE IF c.k = "str" THEN c.s
    ELSE <<>>

Range(n) == [i \in 1..n |-> IntCell(i - 1)]

\* Type inference of the parsers: a column all of whose cells convert to a
\* number becomes numeric, any other column is left as it was read.
InferTypes(rows) ==
    [i \in 1..Len(rows) |->
        [j \in 1..Len(rows[i]) |->
            IF \A r \in 1..Len(rows) : IsNumeric(rows[r][j])
            THEN ToInt(rows[i][j])
            ELSE rows[i][j]]]

Unnamed(j) == StrCell(<<"U", "n", "n", "a", "m", "e", "d", ":", " ">> \o str(j - 1))

Occurrences(labels, j) == Cardinality({i \in 1..(j - 1) : labels[i] = labels[j]})

\* Column labels as the parsers make them: an empty label becomes
\* "Unnamed: j", a repeated text label gets ".1", ".2", ... appended.
MangleLabels(labels) ==
    LET named == [j \in 1..Len(labels) |->
                    IF labels[j].k = "nan" THEN Unnamed(j) ELSE labels[j]]
    IN [j \in 1..Len(named) |->
            IF named[j].k = "str" /\ Occurrences(named, j) > 0
            THEN StrCell(named[j].s \o <<".">> \o str(Occurrences(named, j)))
            ELSE named[j]]

EmptyFrame == [columns |-> <<>>, index |-> <<>>, data |-> <<>>]

NoFrame == [ok |-> FALSE, frame |-> EmptyFrame]

----------------------------------------------------------------------------
(* Files *)

NoFile == [exists |-> FALSE, ok |-> FALSE, lines |-> <<>>]

CsvFile(lines) == [exists |-> TRUE, ok |-> TRUE, lines |-> lines]

\* a file that exists and cannot be decoded, or was left half written
BrokenFile == [exists |-> TRUE, ok |-> FALSE, lines |-> <<>>]

NoBook == [exists |-> FALSE, ok |-> FALSE, sheet |-> <<>>, rows |-> <<>>]

Book(sheet, rows) == [exists |-> TRUE, ok |-> TRUE, sheet |-> sheet, rows |-> rows]

BrokenBook == [exists |-> TRUE, ok |-> FALSE, sheet |-> <<>>, rows |-> <<>>]

----------------------------------------------------------------------------
(* Sheet selectors: SheetSelector = Union[str, int] *)

ByIndex(i) == [kind |-> "index", index |-> i, name |-> <<>>]
ByName(s) == [kind |-> "name", index |-> 0, name |-> s]
NoSel == [kind |-> "none", index |-> 0, name |-> <<>>]

\* the parser without the strip: the text is judged as it was typed
_sheet_identifier_unstripped(v) ==
    IF isdigit(v) THEN ByIndex(int(v)) ELSE ByName(v)

_sheet_identifier(v) ==
    LET stripped == strip(v)
    IN IF isdigit(stripped) THEN ByIndex(int(stripped)) ELSE ByName(stripped)

----------------------------------------------------------------------------
(* The table library, as the two conversions use it *)

NonBlank(lines) == SelectSeq(lines, LAMBDA l : l # <<>>)

TextCells(line) ==
    [j \in 1..Len(line) |-> IF line[j] = <<>> THEN NaN ELSE StrCell(line[j])]

\* the reader with the header flag ignored: the first line is always labels
read_csv_header_always(file, has_header) ==
    LET lines == NonBlank(file.lines)
    IN IF ~file.ok \/ lines = <<>> THEN NoFrame
       ELSE [ok |-> TRUE,
             frame |-> [columns |-> MangleLabels(TextCells(lines[1])),
                        index |-> Range(Len(lines) - 1),
                        data |-> InferTypes([i \in 1..(Len(lines) - 1) |->
                                               TextCells(lines[i + 1])])]]

\* pd.read_csv(path, header=0 | None): blank lines are skipped, a file
\* without any line cannot be parsed
read_csv(file, has_header) ==
    LET lines == NonBlank(file.lines)
    IN IF ~file.ok \/ lines = <<>> THEN NoFrame
       ELSE LET body == IF has_header THEN Tail(lines) ELSE lines
                text == [i \in 1..Len(body) |-> TextCells(body[i])]
            IN [ok |-> TRUE,
                frame |-> [columns |-> IF has_header
                                       THEN MangleLabels(TextCells(lines[1]))
                                       ELSE Range(Len(lines[1])),
                           index |-> Range(Len(body)),
                           data |-> InferTypes(text)]]

\* a transpose that numbers the new columns afresh instead of taking the
\* row labels over
transpose_reset_labels(f) ==
    [columns |-> Range(Len(f.index)),
     index |-> f.columns,
     data |-> [i \in 1..Len(f.columns) |->
                 [j \in 1..Len(f.index) |-> f.data[j][i]]]]

\* a transpose of the cells that leaves the labels where they were
transpose_keep_labels(f) ==
    [columns |-> f.columns,
     index |-> f.index,
     data |-> [i \in 1..Len(f.columns) |->
                 [j \in 1..Len(f.index) |-> f.data[j][i]]]]

\* frame.transpose(copy=True)
transpose(f) ==
    [columns |-> f.index,
     index |-> f.columns,
     data |-> [i \in 1..Len(f.columns) |->
                 [j \in 1..Len(f.index) |-> f.data[j][i]]]]

\* the Shape Transform of both conversions: "if transpose: frame = ..."
Transform(f, flag) == IF flag THEN transpose(f) ELSE f

\* a writer that leaves the row of column labels out (header=False)
to_excel_without_labels(f, sheet_name, index) ==
    Book(sheet_name,
         [i \in 1..Len(f.index) |->
             (IF index THEN <<f.index[i]>> ELSE <<>>) \o f.data[i]])

\* a writer that leaves the label row out when no label is a text
to_excel_named_labels_only(f, sheet_name, index) ==
    LET header == (IF index THEN <<NaN>> ELSE <<>>) \o f.columns
        body == [i \in 1..Len(f.index) |->
                    (IF index THEN <<f.index[i]>> ELSE <<>>) \o f.data[i]]
        named == \E j \in 1..Len(f.columns) : f.columns[j].k = "str"
    IN Book(sheet_name,
            IF header = <<>> THEN <<>>
            ELSE IF named THEN <<header>> \o body
            ELSE body)

\* frame.to_excel(path, sheet_name=..., index=...): the column labels are
\* the first row; the row labels are a leading column only when asked for
to_excel(f, sheet_name, index) ==
    LET header == (IF index THEN <<NaN>> ELSE <<>>) \o f.columns
        body == [i \in 1..Len(f.index) |->
                    (IF index THEN <<f.index[i]>> ELSE <<>>) \o f.data[i]]
    IN Book(sheet_name, IF header = <<>> THEN <<>> ELSE <<header>> \o body)

\* a workbook written by to_excel holds one worksheet, at index 0
Selects(book, sel) ==
    \/ sel.kind = "index" /\ sel.index = 0
    \/ sel.kind = "name" /\ sel.name = book.sheet

\* pd.read_excel(path, sheet_name=...): the first row is the column labels
read_excel(book, sel) ==
    IF ~book.ok \/ ~Selects(book, sel) THEN NoFrame
    ELSE IF book.rows = <<>> THEN [ok |-> TRUE, frame |-> EmptyFrame]
    ELSE [ok |-> TRUE,
          frame |-> [columns |-> MangleLabels(book.rows[1]),
                     index |-> Range(Len(book.rows) - 1),
                     data |-> InferTypes(Tail(book.rows))]]

\* frame.to_csv(path, index=..., header=..., line_terminator="\n")
to_csv(f, index, header) ==
    LET head == (IF index THEN << <<>> >> ELSE <<>>)
                \o [j \in 1..Len(f.columns) |-> FormatCell(f.columns[j])]
        body == [i \in 1..Len(f.index) |->
                    (IF index THEN <<FormatCell(f.index[i])>> ELSE <<>>)
                    \o [j \in 1..Len(f.data[i]) |-> FormatCell(f.data[i][j])]]
    IN CsvFile((IF header THEN <<head>> ELSE <<>>) \o body)

----------------------------------------------------------------------------
(* Arguments and results *)

Sheet1 == <<"S", "h", "e", "e", "t", "1">>

NoCall ==
    [op |-> "none", has_header |-> TRUE, transpose |-> FALSE,
     include_index |-> FALSE, include_header |-> TRUE, sheet_name |-> NoSel]

\* csv_to_excel(csv_path, excel_path, *, sheet_name, has_header, transpose,
\* include_index); delimiter and encoding are left at their defaults
CsvToExcelArgs ==
    [op : {"csv_to_excel"}, has_header : BOOLEAN, transpose : BOOLEAN,
     include_index : BOOLEAN, include_header : {TRUE},
     sheet_name : {ByName(Sheet1)}]

\* excel_to_csv(excel_path, csv_path, *, sheet_name, transpose,
\* include_index, include_header)
ExcelToCsvArgs ==
    [op : {"excel_to_csv"}, has_header : {TRUE}, transpose : BOOLEAN,
     include_index : BOOLEAN, include_header : BOOLEAN,
     sheet_name : {ByIndex(0), ByName(Sheet1), ByIndex(1)}]

\* what the destination's file system does to the write: accept it, refuse
\* to create the parent directory, or fail while the file is being written
Env == {"ok", "mkdir", "write"}

NoExc == [raised |-> "none", error |-> "none"]

\* raise ConversionError(f"CSV file not found: ...")
NotFound == [raised |-> "ConversionError", error |-> "not found"]

\* except Exception as exc: raise ConversionError(f"Unable to read ...")
UnableToRead == [raised |-> "ConversionError", error |-> "unable to read"]

\* a write failure that is not wrapped into ConversionError
UnwrappedWriteError == [raised |-> "OSError", error |-> "unable to write"]

\* except Exception as exc: raise ConversionError(f"Unable to write ...")
UnableToWrite == [raised |-> "ConversionError", error |-> "unable to write"]

\* the outcome of a conversion call: the files afterwards and what it raised
Return(f) == [fs |-> f, exc |-> NoExc]
Raise(f, e) == [fs |-> f, exc |-> e]

NoResult == [status |-> "none", code |-> 0, stderr |-> "", error |-> "none"]

----------------------------------------------------------------------------
(* The stages of a conversion *)

\* csv_path.exists() / excel_path.exists()
SourceExists(f, a) ==
    IF a.op = "csv_to_excel" THEN f.csv.exists ELSE f.xlsx.exists

\* the Reader
Read(f, a) ==
    IF a.op = "csv_to_excel" THEN read_csv(f.csv, a.has_header)
    ELSE read_excel(f.xlsx, a.sheet_name)

DestDir(a) == IF a.op = "csv_to_excel" THEN "xlsxDir" ELSE "outDir"

\* path.parent.mkdir(parents=True, exist_ok=True)
mkdir(f, a, env) ==
    IF env = "mkdir" /\ ~f[DestDir(a)] THEN [ok |-> FALSE, fs |-> f]
    ELSE [ok |-> TRUE, fs |-> [f EXCEPT ![DestDir(a)] = TRUE]]

\* the Writer's serialization: frame.to_excel(...) / frame.to_csv(...)
Serialize(f, a, fr, env) ==
    IF a.op = "csv_to_excel"
    THEN IF env = "write"
         THEN [ok |-> FALSE, fs |-> [f EXCEPT !.xlsx = BrokenBook]]
         ELSE [ok |-> TRUE,
               fs |-> [f EXCEPT !.xlsx = to_excel(fr, a.sheet_name.name,
                                                  a.include_index)]]
    ELSE IF env = "write"
         THEN [ok |-> FALSE, fs |-> [f EXCEPT !.out = BrokenFile]]
         ELSE [ok |-> TRUE,
               fs |-> [f EXCEPT !.out = to_csv(fr, a.include_index,
                                               a.include_header)]]

----------------------------------------------------------------------------
(* The conversions, from the first statement to the last *)

\* a conversion that creates the destination's directory before it looks
\* for its source
csv_to_excel_mkdir_first(f, a, env) ==
    LET made == mkdir(f, a, env)
    IN IF ~made.fs.csv.exists THEN Raise(made.fs, NotFound)
       ELSE LET r == read_csv(made.fs.csv, a.has_header)
            IN IF ~r.ok THEN Raise(made.fs, UnableToRead)
               ELSE IF ~made.ok THEN Raise(made.fs, UnableToWrite)
               ELSE Return([made.fs EXCEPT
                              !.xlsx = to_excel(Transform(r.frame, a.transpose),
                                                a.sheet_name.name,
                                                a.include_index)])

csv_to_excel(f, a, env) ==
    IF ~f.csv.exists THEN Raise(f, NotFound)
    ELSE LET r == read_csv(f.csv, a.has_header)
         IN IF ~r.ok THEN Raise(f, UnableToRead)
            ELSE LET fr == Transform(r.frame, a.transpose)
                     made == mkdir(f, a, env)
                 IN IF ~made.ok THEN Raise(made.fs, UnableToWrite)
                    ELSE IF env = "write"
                    THEN Raise([made.fs EXCEPT !.xlsx = BrokenBook], UnableToWrite)
                    ELSE Return([made.fs EXCEPT
                                   !.xlsx = to_excel(fr, a.sheet_name.name,
                                                     a.include_index)])

excel_to_csv(f, a, env) ==
    IF ~f.xlsx.exists THEN Raise(f, NotFound)
    ELSE LET r == read_excel(f.xlsx, a.sheet_name)
         IN IF ~r.ok THEN Raise(f, UnableToRead)
            ELSE LET fr == Transform(r.frame, a.transpose)
                     made == mkdir(f, a, env)
                 IN IF ~made.ok THEN Raise(made.fs, UnableToWrite)
                    ELSE IF env = "write"
                    THEN Raise([made.fs EXCEPT !.out = BrokenFile], UnableToWrite)
                    ELSE Return([made.fs EXCEPT
                                   !.out = to_csv(fr, a.include_index,
                                                  a.include_header)])

\* try: ... except ConversionError: print("conversion failed: ..."); return 1
\* return 0
Command(e) ==
    IF e.raised = "none"
    THEN [status |-> "returned", code |-> 0, stderr |-> "", error |-> "none"]
    ELSE IF e.raised = "ConversionError"
    THEN [status |-> "returned", code |-> 1, stderr |-> "conversion failed",
          error |-> e.error]
    ELSE [status |-> "raised", code |-> 0, stderr |-> "", error |-> e.error]

_command_csv_to_excel(f, a, env) ==
    LET outcome == csv_to_excel(f, a, env)
    IN [fs |-> outcome.fs, res |-> Command(outcome.exc)]

_command_excel_to_csv(f, a, env) ==
    LET outcome == excel_to_csv(f, a, env)
    IN [fs |-> outcome.fs, res |-> Command(outcome.exc)]

\* main(argv): parsed.func(parsed)
main(f, a, env) ==
    IF a.op = "csv_to_excel" THEN _command_csv_to_excel(f, a, env)
    ELSE _command_excel_to_csv(f, a, env)

----------------------------------------------------------------------------
(* Inputs *)

Tokens == {<<"a">>, <<"0", "2">>}

Shapes ==
    {p \in (0..(MaxRows + 1)) \X (1..MaxCols) : p[1] * p[2] <= MaxCells}

\* rectangular delimited files: from no line at all up to a header and
\* MaxRows data rows, one to MaxCols fields a line
Grids == UNION {[1..p[1] -> [1..p[2] -> Tokens]] : p \in Shapes}

SourceFiles == {NoFile, BrokenFile} \cup {CsvFile(g) : g \in Grids}

Idle ==
    /\ pc = "idle"
    /\ cur = NoCall
    /\ readFrame = EmptyFrame
    /\ frame = EmptyFrame
    /\ trace = <<>>
    /\ exc = NoExc

NoParse ==
    /\ value = <<>>
    /\ parsed = NoSel

NoCalls ==
    /\ call1 = NoCall
    /\ call2 = NoCall
    /\ res1 = NoResult
    /\ res2 = NoResult

----------------------------------------------------------------------------
(* Whole calls: a csv-to-excel command, then an excel-to-csv command on   *)
(* what it wrote, each run from its first statement to its last on a file *)
(* system that accepts the writes.                                        *)

Init ==
    /\ \E src \in SourceFiles :
          fs = [csv |-> src, xlsx |-> NoBook, out |-> NoFile,
                xlsxDir |-> FALSE, outDir |-> FALSE]
    /\ fs0 = fs
    /\ NoCalls
    /\ Idle
    /\ NoParse

CsvToExcel ==
    /\ call1 = NoCall
    /\ call2 = NoCall
    /\ \E a \in CsvToExcelArgs :
          \E r \in {main(fs, a, "ok")} :
             /\ fs' = r.fs
             /\ fs0' = fs
             /\ call1' = a
             /\ res1' = r.res
    /\ UNCHANGED <<call2, res2, pc, cur, readFrame, frame, trace, exc, value, parsed>>

ExcelToCsv ==
    /\ call2 = NoCall
    /\ \E a \in ExcelToCsvArgs :
          \E r \in {main(fs, a, "ok")} :
             /\ fs' = r.fs
             /\ fs0' = fs
             /\ call2' = a
             /\ res2' = r.res
    /\ UNCHANGED <<call1, res1, pc, cur, readFrame, frame, trace, exc, value, parsed>>

Next == CsvToExcel \/ ExcelToCsv

Spec == Init /\ [][Next]_vars

----------------------------------------------------------------------------
(* One conversion, stage by stage, on a file system that may refuse the   *)
(* write.  The order of the stages does not depend on the cells, so the   *)
(* sources are the one-column files.                                      *)

StagedSources ==
    {NoFile, BrokenFile}
    \cup {CsvFile(g) : g \in {h \in Grids : \A i \in 1..Len(h) : Len(h[i]) = 1}}

\* the workbooks an earlier run may have left for the source
StagedBooks(src) ==
    {NoBook, BrokenBook}
    \cup {to_excel(read_csv(src, TRUE).frame, Sheet1, FALSE) : ok \in {read_csv(src, TRUE).ok} \ {FALSE}}

InitPipeline ==
    /\ \E src \in StagedSources, d \in BOOLEAN :
          \E book \in StagedBooks(src) :
             fs = [csv |-> src, xlsx |-> book, out |-> NoFile,
                   xlsxDir |-> d, outDir |-> d]
    /\ fs0 = fs
    /\ NoCalls
    /\ Idle
    /\ NoParse

\* the command is entered and the conversion checks that its source exists
Call ==
    /\ pc = "idle"
    /\ \E a \in CsvToExcelArgs \cup ExcelToCsvArgs :
          /\ cur' = a
          /\ IF SourceExists(fs, a)
             THEN pc' = "read" /\ exc' = exc
             ELSE pc' = "raised" /\ exc' = NotFound
    /\ trace' = <<>>
    /\ fs0' = fs
    /\ UNCHANGED <<fs, call1, call2, res1, res2, readFrame, frame, value, parsed>>

\* a Read stage that swallows the Reader's error and carries on
ReadStageSwallow ==
    /\ pc = "read"
    /\ \E r \in {Read(fs, cur)} :
          /\ readFrame' = r.frame
          /\ frame' = r.frame
    /\ pc' = "transform"
    /\ trace' = Append(trace, "read")
    /\ UNCHANGED <<fs, fs0, call1, call2, res1, res2, cur, exc, value, parsed>>

\* pd.read_csv / pd.read_excel inside try ... except Exception
ReadStage ==
    /\ pc = "read"
    /\ \E r \in {Read(fs, cur)} :
          /\ readFrame' = r.frame
          /\ frame' = r.frame
          /\ IF r.ok
             THEN pc' = "transform" /\ exc' = exc
             ELSE pc' = "raised" /\ exc' = UnableToRead
    /\ trace' = Append(trace, "read")
    /\ UNCHANGED <<fs, fs0, call1, call2, res1, res2, cur, value, parsed>>

\* if transpose: frame = frame.transpose(copy=True)
TransformStage ==
    /\ pc = "transform"
    /\ frame' = Transform(frame, cur.transpose)
    /\ pc' = "mkdir"
    /\ trace' = Append(trace, "transform")
    /\ UNCHANGED <<fs, fs0, call1, call2, res1, res2, cur, readFrame, exc, value, parsed>>

\* path.parent.mkdir(parents=True, exist_ok=True) inside try ... except
MkdirStage ==
    /\ pc = "mkdir"
    /\ \E env \in Env :
          \E made \in {mkdir(fs, cur, env)} :
             /\ fs' = made.fs
             /\ IF made.ok
                THEN pc' = "write" /\ exc' = exc
                ELSE pc' = "raised" /\ exc' = UnableToWrite
    /\ trace' = Append(trace, "mkdir")
    /\ UNCHANGED <<fs0, call1, call2, res1, res2, cur, readFrame, frame, value, parsed>>

\* frame.to_excel(...) / frame.to_csv(...) inside the same try ... except
WriteStage ==
    /\ pc = "write"
    /\ \E env \in Env :
          \E w \in {Serialize(fs, cur, frame, env)} :
             /\ fs' = w.fs
             /\ IF w.ok
                THEN pc' = "return" /\ exc' = exc
                ELSE pc' = "raised" /\ exc' = UnableToWrite
    /\ trace' = Append(trace, "write")
    /\ UNCHANGED <<fs0, call1, call2, res1, res2, cur, readFrame, frame, value, parsed>>

\* the command function returns 0, or catches ConversionError and returns 1
Exit ==
    /\ pc \in {"return", "raised"}
    /\ pc' = "done"
    /\ IF cur.op = "csv_to_excel"
       THEN call1' = cur /\ res1' = Command(exc) /\ UNCHANGED <<call2, res2>>
       ELSE call2' = cur /\ res2' = Command(exc) /\ UNCHANGED <<call1, res1>>
    /\ UNCHANGED <<fs, fs0, cur, readFrame, frame, trace, exc, value, parsed>>

NextPipeline ==
    Call \/ ReadStage \/ TransformStage \/ MkdirStage \/ WriteStage \/ Exit

SpecPipeline == InitPipeline /\ [][NextPipeline]_vars

----------------------------------------------------------------------------
(* The Shape Transform on its own: a frame the Reader can produce, and the *)
(* transform applied to it once and once more.                             *)

ReaderFrames ==
    {read_csv(CsvFile(g), h).frame : g \in Grids \ {<<>>}, h \in BOOLEAN}

NoFiles ==
    [csv |-> NoFile, xlsx |-> NoBook, out |-> NoFile,
     xlsxDir |-> FALSE, outDir |-> FALSE]

InitTransform ==
    /\ fs = NoFiles
    /\ fs0 = NoFiles
    /\ NoCalls
    /\ pc = "transform"
    /\ \E flag \in BOOLEAN : cur = [NoCall EXCEPT !.transpose = flag]
    /\ readFrame \in ReaderFrames
    /\ frame = readFrame
    /\ trace = <<>>
    /\ exc = NoExc
    /\ NoParse

ShapeTransform ==
    /\ Len(trace) < 2
    /\ frame' = Transform(frame, cur.transpose)
    /\ trace' = Append(trace, "transform")
    /\ UNCHANGED <<fs, fs0, call1, call2, res1, res2, pc, cur, readFrame, exc,
                   value, parsed>>

NextTransform == ShapeTransform

SpecTransform == InitTransform /\ [][NextTransform]_vars

----------------------------------------------------------------------------
(* The --sheet-name argument of excel-to-csv: argparse applies             *)
(* type=_sheet_identifier to the text given on the command line.           *)

Alphabet == {" ", "0", "1", "a"}

Texts == UNION {[1..n -> Alphabet] : n \in 0..MaxLen}

InitSheet ==
    /\ fs = NoFiles
    /\ fs0 = NoFiles
    /\ NoCalls
    /\ Idle
    /\ value \in Texts
    /\ parsed = NoSel

ParseSheetName ==
    /\ parsed = NoSel
    /\ parsed' = _sheet_identifier(value)
    /\ UNCHANGED <<fs, fs0, call1, call2, res1, res2, pc, cur, readFrame, frame,
                   trace, exc, value>>

NextSheet == ParseSheetName

SpecSheet == InitSheet /\ [][NextSheet]_vars

----------------------------------------------------------------------------
(* Round trips *)

Succeeded(res) == res.status = "returned" /\ res.code = 0

\* csv_to_excel with a header and excel_to_csv writing the labels, both
\* without row labels and both with the same transpose flag, have succeeded
RoundTripDone(flag) ==
    /\ call1.op = "csv_to_excel"
    /\ call1.has_header
    /\ call1.transpose = flag
    /\ ~call1.include_index
    /\ Succeeded(res1)
    /\ call2.op = "excel_to_csv"
    /\ call2.transpose = flag
    /\ ~call2.include_index
    /\ call2.include_header
    /\ Succeeded(res2)

\* the tables the regression tests compare: pd.read_csv of the source and
\* pd.read_csv of the file excel_to_csv wrote
Original == read_csv(fs.csv, TRUE).frame
Rebuilt == read_csv(fs.out, TRUE).frame

HasText(f) == \E i \in 1..Len(f.data) : \E j \in 1..Len(f.data[i]) : f.data[i][j].k = "str"
HasNumber(f) == \E i \in 1..Len(f.data) : \E j \in 1..Len(f.data[i]) : f.data[i][j].k = "int"

\* C1: after csv_to_excel and excel_to_csv with default options the file
\* written holds the table of the source: the same column labels in the same
\* order, as many data rows, and the same cell at every row and column.
C1_RoundTrip ==
    RoundTripDone(FALSE) =>
        /\ read_csv(fs.out, TRUE).ok
        /\ Rebuilt.columns = Original.columns
        /\ Len(Rebuilt.data) = Len(Original.data)
        /\ \A i \in 1..Len(Original.data) :
              /\ Len(Rebuilt.data[i]) = Len(Original.data[i])
              /\ \A j \in 1..Len(Original.data[i]) :
                    Rebuilt.data[i][j] = Original.data[i][j]

\* a default round trip of two data rows holding a text and a number, in
\* which the text of the file written differs from the text of the source
C1_Witness ==
    /\ RoundTripDone(FALSE)
    /\ Len(Original.data) = 2
    /\ Len(Original.columns) >= 2
    /\ HasText(Original)
    /\ HasNumber(Original)
    /\ fs.out.lines # fs.csv.lines

\* C2: after csv_to_excel with transpose and excel_to_csv with transpose the
\* data rows of the file written are the data rows of the source: as many
\* rows and the same cell at every row and column.
C2_TransposeRoundTripData ==
    RoundTripDone(TRUE) => Rebuilt.data = Original.data

\* C3: after the transpose round trip the table read back has the column
\* labels of the source: the header line written carries the original labels.
C3_TransposeRoundTripLabels ==
    RoundTripDone(TRUE) => Rebuilt.columns = Original.columns

----------------------------------------------------------------------------
(* Missing source *)

\* C4: a conversion whose source path does not exist ends with the "not
\* found" ConversionError and leaves the destination and its parent
\* directory as they were before the call.
C4_MissingSource ==
    /\ (call1.op # "none" /\ call2.op = "none" /\ ~fs0.csv.exists) =>
          /\ res1.error = "not found"
          /\ res1.code = 1
          /\ fs = fs0
    /\ (call2.op # "none" /\ ~fs0.xlsx.exists) =>
          /\ res2.error = "not found"
          /\ res2.code = 1
          /\ fs = fs0

\* both conversions have been called on a source that does not exist
C4_Witness ==
    /\ call1.op = "csv_to_excel"
    /\ call2.op = "excel_to_csv"
    /\ ~fs0.csv.exists
    /\ ~fs0.xlsx.exists
    /\ res1.error = "not found"
    /\ res2.error = "not found"

----------------------------------------------------------------------------
(* Header suppression *)

SheetDataRows == Len(fs.xlsx.rows) - 1

\* a line of the source as the data row it makes: each field the text it
\* is, or the number it spells
IsDataRow(row, line) ==
    /\ Len(row) = Len(line)
    /\ \A j \in 1..Len(line) :
          row[j] \in {StrCell(line[j]), IntCell(int(SelectSeq(line[j], IsDigitChar)))}

\* C5: of a source of k >= 1 lines csv_to_excel with has_header=False makes
\* k data rows, the first line being the first of them, and with
\* has_header=True k - 1 data rows under the labels of the first line: one
\* data row more without the header than with it.
C5_HeaderSuppression ==
    (/\ call1.op = "csv_to_excel"
     /\ Succeeded(res1)
     /\ ~call1.transpose
     /\ ~call1.include_index) =>
        LET k == Len(fs.csv.lines)
        IN /\ k >= 1
           /\ IF call1.has_header
              THEN /\ SheetDataRows = k - 1
                   /\ SheetDataRows + 1 = Len(read_csv(fs.csv, FALSE).frame.data)
                   /\ \A j \in 1..Len(fs.csv.lines[1]) :
                         fs.xlsx.rows[1][j].k = "str"
                         /\ SubSeq(fs.xlsx.rows[1][j].s, 1, Len(fs.csv.lines[1][j]))
                               = fs.csv.lines[1][j]
              ELSE /\ SheetDataRows = k
                   /\ SheetDataRows = Len(read_csv(fs.csv, TRUE).frame.data) + 1
                   /\ IsDataRow(fs.xlsx.rows[2], fs.csv.lines[1])

\* a source of three lines converted without a header
C5_Witness ==
    /\ call1.op = "csv_to_excel"
    /\ Succeeded(res1)
    /\ ~call1.transpose
    /\ ~call1.include_index
    /\ ~call1.has_header
    /\ Len(fs.csv.lines) = 3
    /\ SheetDataRows = 3

----------------------------------------------------------------------------
(* Exit codes *)

Stages == <<"read", "transform", "mkdir", "write">>

\* the result of the command in progress and the file it is to write
Result == IF cur.op = "csv_to_excel" THEN res1 ELSE res2
Destination == IF cur.op = "csv_to_excel" THEN fs.xlsx ELSE fs.out

\* C6: a command returns 0 exactly when the Read, Transform and Write
\* stages have all completed and the destination is written; on a failure
\* of any stage it returns 1 with "conversion failed" on standard error; it
\* never ends with an uncaught exception or another code.
C6_ExitCode ==
    pc = "done" =>
        /\ Result.status = "returned"
        /\ Result.code \in {0, 1}
        /\ Result.code = 0 <=> (trace = Stages /\ Destination.ok)
        /\ Result.code = 1 => Result.stderr = "conversion failed"
        /\ Result.code = 1 <=>
              \/ ~SourceExists(fs0, cur)
              \/ ~Read(fs0, cur).ok
              \/ ~fs[DestDir(cur)]
              \/ ~Destination.ok

\* a command that failed while the destination was being written, after
\* the Read and Transform stages and the creation of the directory
C6_Witness ==
    /\ pc = "done"
    /\ trace = Stages
    /\ ~Destination.ok
    /\ Result.code = 1
    /\ Result.error = "unable to write"

----------------------------------------------------------------------------
(* The Shape Transform *)

\* C7: the Shape Transform applied twice with the transpose flag set gives
\* back the table it started from: cells, column labels and row labels.
C7_TransposeInvolution ==
    (Len(trace) = 2 /\ cur.transpose) =>
        /\ frame.data = readFrame.data
        /\ frame.columns = readFrame.columns
        /\ frame.index = readFrame.index

\* a table of three labelled columns and one row, transposed twice
C7_Witness ==
    /\ Len(trace) = 2
    /\ cur.transpose
    /\ Len(readFrame.columns) = 3
    /\ Len(readFrame.index) = 1
    /\ readFrame.columns[1].k = "str"
    /\ readFrame.data[1][1] # readFrame.data[1][2]

\* C8: with the transpose flag set the cell at (i, j) of the result is the
\* cell at (j, i) of the input, the input's column labels are the result's
\* row labels and the input's row labels the result's column labels; with
\* the flag clear the table handed to the Writer is the Reader's table.
C8_Transform ==
    Len(trace) = 1 =>
        IF cur.transpose
        THEN /\ frame.index = readFrame.columns
             /\ frame.columns = readFrame.index
             /\ Len(frame.data) = Len(readFrame.columns)
             /\ \A i \in 1..Len(frame.data) :
                   /\ Len(frame.data[i]) = Len(readFrame.index)
                   /\ \A j \in 1..Len(frame.data[i]) :
                         frame.data[i][j] = readFrame.data[j][i]
        ELSE frame = readFrame

\* a table of two labelled columns and two rows with unlike cells off the
\* diagonal, transposed once
C8_Witness ==
    /\ Len(trace) = 1
    /\ cur.transpose
    /\ Len(readFrame.columns) = 2
    /\ Len(readFrame.index) = 2
    /\ readFrame.columns[1].k = "str"
    /\ readFrame.data[1][2] # readFrame.data[2][1]
    /\ frame.data[1][2] = readFrame.data[2][1]

----------------------------------------------------------------------------
(* The sheet-name parser *)

----------------------------------------------------------------------------
(* The pipeline *)

InTrace(stage) == \E i \in 1..Len(trace) : trace[i] = stage

\* C10: the stages are entered in the order Read, Transform, Write and none
\* twice; the Write stage (directory, then file) is entered only after the
\* Reader has succeeded; when the source is missing or the Reader fails no
\* later stage is entered and the files and directories are as the call
\* found them.
C10_Pipeline ==
    /\ Len(trace) <= Len(Stages)
    /\ trace = SubSeq(Stages, 1, Len(trace))
    /\ InTrace("mkdir") =>
          /\ SourceExists(fs0, cur)
          /\ Read(fs0, cur).ok
          /\ readFrame = Read(fs0, cur).frame
    /\ fs # fs0 => InTrace("mkdir")
    /\ exc.error \in {"not found", "unable to read"} =>
          /\ fs = fs0
          /\ ~InTrace("transform")
          /\ ~InTrace("mkdir")
          /\ ~InTrace("write")
    /\ (pc = "done" /\ cur.op # "none"
        /\ (~SourceExists(fs0, cur) \/ ~Read(fs0, cur).ok)) =>
          /\ fs = fs0
          /\ exc.error \in {"not found", "unable to read"}

\* excel_to_csv has ended on a workbook that holds no worksheet of the
\* selector, the directory of the destination still missing
C10_Witness ==
    /\ pc = "done"
    /\ cur.op = "excel_to_csv"
    /\ fs0.xlsx.ok
    /\ ~Selects(fs0.xlsx, cur.sheet_name)
    /\ exc.error = "unable to read"
    /\ ~fs.outDir
    /\ ~fs.out.exists

----------------------------------------------------------------------------
(* The label row of the worksheet *)

\* the frame csv_to_excel handed to the Writer
Written == Transform(read_csv(fs.csv, call1.has_header).frame, call1.transpose)

\* the cells of a worksheet row or the fields of a line that follow the
\* leading column of row labels, when csv_to_excel wrote one
Labelled(row) == IF call1.include_index THEN Tail(row) ELSE row

\* the positional labels 0 .. n-1 as to_csv writes them
PositionalLine(n) == [j \in 1..n |-> str(j - 1)]

\* has_header=False and transpose=False: the first worksheet row is the
\* positional labels 0 .. n-1, every line of the source follows as a data
\* row (k lines, k + 1 rows), and excel_to_csv with default options writes
\* the positional labels as its first line, so its output is not the source
PositionalLabelRow ==
    (/\ call1.op = "csv_to_excel"
     /\ Succeeded(res1)
     /\ ~call1.has_header
     /\ ~call1.transpose) =>
        LET k == Len(fs.csv.lines)
            n == Len(fs.csv.lines[1])
        IN /\ k >= 1
           /\ Len(fs.xlsx.rows) = k + 1
           /\ Labelled(fs.xlsx.rows[1]) = Range(n)
           /\ \A i \in 1..k :
                 IsDataRow(Labelled(fs.xlsx.rows[i + 1]), fs.csv.lines[i])
           /\ (/\ call2.op = "excel_to_csv"
               /\ Succeeded(res2)
               /\ ~call2.transpose
               /\ ~call2.include_index
               /\ call2.include_header) =>
                 /\ Len(fs.out.lines) = k + 1
                 /\ Labelled(fs.out.lines[1]) = PositionalLine(n)
                 /\ fs.out.lines # fs.csv.lines

\* C11: every csv_to_excel that succeeds writes the column labels of its
\* table as the first row of the worksheet, with the data rows below it (a
\* table that has no column has no label to write, and written without row
\* labels leaves no row at all).  With has_header=False and transpose=False
\* the labels are the positional integers 0 .. n-1, a source of k lines makes
\* a worksheet of k + 1 rows, and excel_to_csv with default options writes
\* the positional labels as its first line instead of the k source lines.
C11_LabelRowOfColumns ==
    /\ (call1.op = "csv_to_excel" /\ Succeeded(res1)) =>
          IF Written.columns # <<>>
          THEN /\ fs.xlsx.rows # <<>>
               /\ Labelled(fs.xlsx.rows[1]) = Written.columns
               /\ Len(fs.xlsx.rows) = Len(Written.index) + 1
          ELSE call1.include_index \/ fs.xlsx.rows = <<>>
    /\ PositionalLabelRow

\* a source of three lines converted without a header and converted back
\* with default options: four lines, the first of them the label 0
C11_Witness ==
    /\ call1.op = "csv_to_excel"
    /\ Succeeded(res1)
    /\ ~call1.has_header
    /\ ~call1.transpose
    /\ ~call1.include_index
    /\ Len(fs.csv.lines) = 3
    /\ Len(fs.xlsx.rows) = 4
    /\ call2.op = "excel_to_csv"
    /\ Succeeded(res2)
    /\ ~call2.transpose
    /\ ~call2.include_index
    /\ call2.include_header
    /\ Len(fs.out.lines) = 4
    /\ fs.out.lines[1][1] = <<"0">>

====
